---- MODULE Spec2Model ----
(***************************************************************************)
(* CropHealth AI front end: the Dashboard (analysis orchestrator), the     *)
(* usePolling hook (job poller), the polygon capture of the two map        *)
(* back ends and the debounced location search of the Leaflet map.         *)
(*                                                                         *)
(* React state and refs are the variables.  An event handler, a timer      *)
(* callback or the continuation of an await is one action; an effect that  *)
(* React re-runs because one of its dependencies changed is part of the    *)
(* action that changed the dependency.  Requests in flight are bags, and   *)
(* they complete in any order.                                             *)
(***************************************************************************)
EXTENDS Integers, Sequences, FiniteSets, Bags, TLC

\* ------------------------------------------------------------- bounds
MaxJobs == 2          \* job identifiers the backend issues in one run
MaxInFlight == 2      \* status fetches outstanding at once
MaxGeoInFlight == 2   \* geocoding requests outstanding at once
MaxResults == 2       \* candidates in one suggestion response
MaxVertices == 4      \* vertices of a drawn shape

\* ------------------------------------------------------------- state
VARIABLES
    \* Dashboard (src/unnamed/part_002)
    aoiGeojson, startDate, endDate, jobId, submitting, error,
    \* usePolling (src/frontend/src/App.js)
    result, polling, timerRef,
    \* the browser's interval timers and the requests to the Job API
    timers, timerSeq, fetches, submits,
    \* the backend: identifiers issued, status of each job
    issued, remote,
    \* the map widget: which MapComponent is built, the shapes it holds
    variant, layers, rviLayerVisible,
    \* location search of the Leaflet MapComponent
    searchQuery, suggestions, isSearching, searchError, searchResult, flyTo,
    showSuggestions, debounceTimer, cachedItem, geoRequests,
    \* the MapComponent handler that ran last
    ev,
    \* App renders the Dashboard (a user is signed in)
    mounted

dashVars == <<aoiGeojson, startDate, endDate, jobId, submitting, error>>
pollVars == <<result, polling, timerRef, timers, timerSeq, fetches>>
backendVars == <<issued, remote>>
mapVars == <<variant, layers, rviLayerVisible>>
searchVars == <<searchQuery, suggestions, isSearching, searchError, searchResult,
                flyTo, showSuggestions, debounceTimer, cachedItem, geoRequests>>
vars == <<dashVars, pollVars, submits, backendVars, mapVars, searchVars, ev, mounted>>

\* ------------------------------------------------------------- values
NoJob == 0
JobIds == 1..MaxJobs
NoError == "null"
ErrNoAOI == "Please draw an Area of Interest on the map."
ErrNoDates == "Please select a date range."
ErrRemoteDetail == "detail"
ErrGeneric == "Failed to create analysis. Try again."
StartDates == {"", "2024-01-01"}
EndDates == {"", "2024-06-01"}

Statuses == {"pending", "processing", "completed", "failed"}
Terminal(status) == status = "completed" \/ status = "failed"
NoResult == [job |-> NoJob, status |-> "null"]
NoAOI == [type |-> "null", coordinates |-> <<>>]

\* ------------------------------------------------------------- geometry
\* Native vertices are {lat, lng} objects; a drawn shape is their list.
Points == {[lat |-> la, lng |-> ln] : la \in {10, 11}, ln \in {20, 21}}
            \cup {[lat |-> 12, lng |-> 22]}
Distinct(s) == \A i, j \in 1..Len(s) : i /= j => s[i] /= s[j]
Shapes == {s \in UNION {[1..n -> Points] : n \in 3..MaxVertices} : Distinct(s)}
Square == <<[lat |-> 10, lng |-> 20], [lat |-> 10, lng |-> 21],
            [lat |-> 11, lng |-> 21], [lat |-> 11, lng |-> 20]>>

\* an edit can leave the last vertex on the first one
ClosedShapes == {Append(s, s[1]) : s \in {t \in Shapes : Len(t) < MaxVertices}}
EditedShapes == Shapes \cup ClosedShapes

MapLngLat(latlngs) == [i \in 1..Len(latlngs) |-> <<latlngs[i].lng, latlngs[i].lat>>]

GeoJSON(coordinates) == [type |-> "Polygon", coordinates |-> <<coordinates>>]

\* ------------------------------------------------------------- usePolling
ClearInterval(handle) == {t \in timers : t.id /= handle}

CleanupLeavesTimer(old) == timers

\* the effect's cleanup, which exists only when the effect ran with a jobId
Cleanup(old) == IF old /= NoJob THEN ClearInterval(timerRef) ELSE timers

UsePollingEffectNoFirstPoll(old, new) ==
    IF new = old
    THEN UNCHANGED <<polling, timerRef, timers, timerSeq, fetches>>
    ELSE IF new = NoJob
    THEN /\ timers' = Cleanup(old)
         /\ polling' = FALSE
         /\ UNCHANGED <<timerRef, timerSeq, fetches>>
    ELSE /\ polling' = TRUE
         /\ UNCHANGED fetches
         /\ timerSeq' = timerSeq + 1
         /\ timerRef' = timerSeq + 1
         /\ timers' = Cleanup(old) \cup {[id |-> timerSeq + 1, job |-> new]}

\* useEffect(..., [jobId]): what a change of jobId from old to new does
UsePollingEffect(old, new) ==
    IF new = old
    THEN UNCHANGED <<polling, timerRef, timers, timerSeq, fetches>>
    ELSE IF new = NoJob
    THEN /\ timers' = Cleanup(old)
         /\ polling' = FALSE
         /\ UNCHANGED <<timerRef, timerSeq, fetches>>
    ELSE /\ polling' = TRUE
         /\ fetches' = fetches (+) SetToBag({[job |-> new, status |-> "sent"]})
         /\ timerSeq' = timerSeq + 1
         /\ timerRef' = timerSeq + 1
         /\ timers' = Cleanup(old) \cup {[id |-> timerSeq + 1, job |-> new]}

\* setInterval(poll, interval) fires: poll() issues getAnalysisResult(jobId)
Tick ==
    /\ BagCardinality(fetches) < MaxInFlight
    /\ \E t \in timers :
          fetches' = fetches (+) SetToBag({[job |-> t.job, status |-> "sent"]})
    /\ UNCHANGED <<ev, mounted>>
    /\ UNCHANGED <<dashVars, result, polling, timerRef, timers, timerSeq, submits,
                   backendVars, mapVars, searchVars>>

PollResolveKeepsTimer(f) ==
    /\ f \in BagToSet(fetches)
    /\ f.status \in Statuses
    /\ fetches' = fetches (-) SetToBag({f})
    /\ result' = IF mounted THEN [job |-> f.job, status |-> f.status] ELSE result
    /\ IF f.status = "completed"
       THEN polling' = FALSE /\ timers' = ClearInterval(timerRef)
       ELSE UNCHANGED <<polling, timers>>
    /\ UNCHANGED <<ev, mounted>>
    /\ UNCHANGED <<dashVars, timerRef, timerSeq, submits, backendVars, mapVars,
                   searchVars>>

PollResolveNeverStops(f) ==
    /\ f \in BagToSet(fetches)
    /\ f.status \in Statuses
    /\ fetches' = fetches (-) SetToBag({f})
    /\ result' = IF mounted THEN [job |-> f.job, status |-> f.status] ELSE result
    /\ UNCHANGED <<polling, timers>>
    /\ UNCHANGED <<ev, mounted>>
    /\ UNCHANGED <<dashVars, timerRef, timerSeq, submits, backendVars, mapVars,
                   searchVars>>

\* poll(): the await returns data
PollResolveCompletedOnly(f) ==
    /\ f \in BagToSet(fetches)
    /\ f.status \in Statuses
    /\ fetches' = fetches (-) SetToBag({f})
    /\ result' = IF mounted THEN [job |-> f.job, status |-> f.status] ELSE result
    /\ IF f.status = "completed"
       THEN polling' = FALSE /\ timers' = ClearInterval(timerRef)
       ELSE UNCHANGED <<polling, timers>>
    /\ UNCHANGED <<ev, mounted>>
    /\ UNCHANGED <<dashVars, timerRef, timerSeq, submits, backendVars, mapVars,
                   searchVars>>

PollResolveFlagOnly(f) ==
    /\ f \in BagToSet(fetches)
    /\ f.status \in Statuses
    /\ fetches' = fetches (-) SetToBag({f})
    /\ result' = IF mounted THEN [job |-> f.job, status |-> f.status] ELSE result
    /\ polling' = (polling /\ ~Terminal(f.status))
    /\ UNCHANGED timers
    /\ UNCHANGED <<ev, mounted>>
    /\ UNCHANGED <<dashVars, timerRef, timerSeq, submits, backendVars, mapVars,
                   searchVars>>

PollResolve(f) ==
    /\ f \in BagToSet(fetches)
    /\ f.status \in Statuses
    /\ fetches' = fetches (-) SetToBag({f})
    /\ result' = IF mounted THEN [job |-> f.job, status |-> f.status] ELSE result
    /\ IF Terminal(f.status)
       THEN polling' = FALSE /\ timers' = ClearInterval(timerRef)
       ELSE UNCHANGED <<polling, timers>>
    /\ UNCHANGED <<ev, mounted>>
    /\ UNCHANGED <<dashVars, timerRef, timerSeq, submits, backendVars, mapVars,
                   searchVars>>

PollRejectStops(f) ==
    /\ f \in BagToSet(fetches)
    /\ fetches' = fetches (-) SetToBag({f})
    /\ polling' = FALSE
    /\ timers' = ClearInterval(timerRef)
    /\ UNCHANGED <<ev, mounted>>
    /\ UNCHANGED <<dashVars, result, timerRef, timerSeq, submits, backendVars,
                   mapVars, searchVars>>

\* poll(): the await throws; the catch block only logs
PollReject(f) ==
    /\ f \in BagToSet(fetches)
    /\ fetches' = fetches (-) SetToBag({f})
    /\ UNCHANGED <<ev, mounted>>
    /\ UNCHANGED <<dashVars, result, polling, timerRef, timers, timerSeq, submits,
                   backendVars, mapVars, searchVars>>

\* ------------------------------------------------------------- backend
\* GET /api/result/{job_id} reaches the backend: the reply carries the status
\* the job has at that moment
ServeStatus(f) ==
    /\ f \in BagToSet(fetches)
    /\ f.status = "sent"
    /\ fetches' = (fetches (-) SetToBag({f}))
                    (+) SetToBag({[job |-> f.job, status |-> remote[f.job]]})
    /\ UNCHANGED <<ev, mounted>>
    /\ UNCHANGED <<dashVars, result, polling, timerRef, timers, timerSeq, submits,
                   backendVars, mapVars, searchVars>>

\* the job moves on: pending -> processing -> completed | failed
JobAdvance(j) ==
    /\ j \in 1..issued
    /\ \/ remote[j] = "pending" /\ remote' = [remote EXCEPT ![j] = "processing"]
       \/ remote[j] = "processing" /\ remote' = [remote EXCEPT ![j] = "completed"]
       \/ remote[j] \in {"pending", "processing"}
            /\ remote' = [remote EXCEPT ![j] = "failed"]
    /\ UNCHANGED <<ev, mounted>>
    /\ UNCHANGED <<dashVars, pollVars, submits, issued, mapVars, searchVars>>

\* the payload of GET /api/result/{job_id}: a completed job carries its prediction
NoPrediction == [label |-> "null", confidence |-> 0]
Prediction(r) ==
    IF r.status = "completed" THEN [label |-> "Stressed", confidence |-> 82]
    ELSE NoPrediction

\* ... and may carry the URL of its overlay tiles
NoUrl == "null"
RviMapUrl(r) == IF r.status = "completed" THEN "rvi_map_url" ELSE NoUrl

\* ResultsPanel({ result }): what the panel shows of the held result
ResultsPanel(r) ==
    IF r = NoResult THEN [view |-> "none", label |-> "null", confidence |-> 0]
    ELSE IF r.status = "pending" \/ r.status = "processing"
    THEN [view |-> "loading", label |-> "null", confidence |-> 0]
    ELSE IF r.status = "failed"
    THEN [view |-> "failed", label |-> "null", confidence |-> 0]
    ELSE [view |-> "results", label |-> Prediction(r).label,
          confidence |-> Prediction(r).confidence]

\* ------------------------------------------------------------- Dashboard
SetStartDate(d) ==
    /\ mounted
    /\ d /= startDate
    /\ startDate' = d
    /\ UNCHANGED <<ev, mounted>>
    /\ UNCHANGED <<aoiGeojson, endDate, jobId, submitting, error, pollVars, submits,
                   backendVars, mapVars, searchVars>>

SetEndDate(d) ==
    /\ mounted
    /\ d /= endDate
    /\ endDate' = d
    /\ UNCHANGED <<ev, mounted>>
    /\ UNCHANGED <<aoiGeojson, startDate, jobId, submitting, error, pollVars, submits,
                   backendVars, mapVars, searchVars>>

Request == [aoiGeojson |-> aoiGeojson, startDate |-> startDate, endDate |-> endDate]

HandleAnalyzeChecksStartOnly ==
    /\ mounted
    /\ ~(submitting \/ polling)
    /\ IF aoiGeojson = NoAOI
       THEN error' = ErrNoAOI /\ UNCHANGED <<submitting, submits>>
       ELSE IF startDate = ""
       THEN error' = ErrNoDates /\ UNCHANGED <<submitting, submits>>
       ELSE /\ error' = NoError
            /\ submitting' = TRUE
            /\ submits' = submits (+) SetToBag({Request})
    /\ UNCHANGED <<ev, mounted>>
    /\ UNCHANGED <<aoiGeojson, startDate, endDate, jobId, pollVars, backendVars,
                   mapVars, searchVars>>

HandleAnalyzeWhileSubmitting ==
    /\ mounted
    /\ ~polling
    /\ IF aoiGeojson = NoAOI
       THEN error' = ErrNoAOI /\ UNCHANGED <<submitting, submits>>
       ELSE IF startDate = "" \/ endDate = ""
       THEN error' = ErrNoDates /\ UNCHANGED <<submitting, submits>>
       ELSE /\ error' = NoError
            /\ submitting' = TRUE
            /\ submits' = submits (+) SetToBag({Request})
    /\ UNCHANGED <<ev, mounted>>
    /\ UNCHANGED <<aoiGeojson, startDate, endDate, jobId, pollVars, backendVars,
                   mapVars, searchVars>>

\* handleAnalyze up to its await; the button is disabled while submitting || polling
HandleAnalyze ==
    /\ mounted
    /\ ~(submitting \/ polling)
    /\ IF aoiGeojson = NoAOI
       THEN error' = ErrNoAOI /\ UNCHANGED <<submitting, submits>>
       ELSE IF startDate = "" \/ endDate = ""
       THEN error' = ErrNoDates /\ UNCHANGED <<submitting, submits>>
       ELSE /\ error' = NoError
            /\ submitting' = TRUE
            /\ submits' = submits (+) SetToBag({Request})
    /\ UNCHANGED <<ev, mounted>>
    /\ UNCHANGED <<aoiGeojson, startDate, endDate, jobId, pollVars, backendVars,
                   mapVars, searchVars>>

\* createAnalysis resolves with a fresh job_id: setJobId, finally setSubmitting(false)
AnalyzeResolve(r) ==
    /\ r \in BagToSet(submits)
    /\ issued < MaxJobs
    /\ BagCardinality(fetches) < MaxInFlight
    /\ submits' = submits (-) SetToBag({r})
    /\ issued' = issued + 1
    /\ IF mounted
       THEN /\ jobId' = issued + 1
            /\ submitting' = FALSE
            /\ UsePollingEffect(jobId, issued + 1)
       ELSE UNCHANGED <<jobId, submitting, polling, timerRef, timers, timerSeq, fetches>>
    /\ UNCHANGED <<ev, mounted>>
    /\ UNCHANGED <<aoiGeojson, startDate, endDate, error, result, remote, mapVars,
                   searchVars>>

\* createAnalysis throws: setError(detail || generic), finally setSubmitting(false)
AnalyzeReject(r) ==
    /\ r \in BagToSet(submits)
    /\ submits' = submits (-) SetToBag({r})
    /\ IF mounted
       THEN error' \in {ErrRemoteDetail, ErrGeneric} /\ submitting' = FALSE
       ELSE UNCHANGED <<error, submitting>>
    /\ UNCHANGED <<ev, mounted>>
    /\ UNCHANGED <<aoiGeojson, startDate, endDate, jobId, pollVars, backendVars,
                   mapVars, searchVars>>

HandleResetKeepsJob ==
    /\ mounted
    /\ aoiGeojson' = NoAOI
    /\ error' = NoError
    /\ UNCHANGED <<ev, mounted>>
    /\ UNCHANGED <<startDate, endDate, jobId, submitting, pollVars, submits,
                   backendVars, mapVars, searchVars>>

HandleReset ==
    /\ mounted
    /\ aoiGeojson' = NoAOI
    /\ jobId' = NoJob
    /\ error' = NoError
    /\ UsePollingEffect(jobId, NoJob)
    /\ UNCHANGED <<ev, mounted>>
    /\ UNCHANGED <<startDate, endDate, submitting, result, submits, backendVars,
                   mapVars, searchVars>>

\* ------------------------------------------------------------- map widget
\* Leaflet: EditControl adds the drawn layer to the FeatureGroup and calls
\* onCreated; handleCreated drops the oldest layer when more than one is held
HandleCreatedRing(latlngs) ==
    LET coordinates == MapLngLat(latlngs)
    IN  Append(coordinates, coordinates[1])

HandleCreatedKeepsOldest(shape) ==
    /\ mounted
    /\ variant = "leaflet"
    /\ LET all == Append(layers, shape)
       IN  layers' = IF Len(all) > 1 THEN <<all[1]>> ELSE all
    /\ aoiGeojson' = GeoJSON(HandleCreatedRing(shape))
    /\ ev' = "handleCreated" /\ UNCHANGED mounted
    /\ UNCHANGED <<startDate, endDate, jobId, submitting, error, pollVars, submits,
                   backendVars, variant, rviLayerVisible, searchVars>>

HandleCreated(shape) ==
    /\ mounted
    /\ variant = "leaflet"
    /\ LET all == Append(layers, shape)
       IN  layers' = IF Len(all) > 1 THEN Tail(all) ELSE all
    /\ aoiGeojson' = GeoJSON(HandleCreatedRing(shape))
    /\ ev' = "handleCreated" /\ UNCHANGED mounted
    /\ UNCHANGED <<startDate, endDate, jobId, submitting, error, pollVars, submits,
                   backendVars, variant, rviLayerVisible, searchVars>>

HandleEditedOpenRing(latlngs) == MapLngLat(latlngs)

HandleEditedRing(latlngs) ==
    LET coordinates == MapLngLat(latlngs)
    IN  Append(coordinates, coordinates[1])

\* Leaflet: the user reshapes layer i and saves
HandleEdited(i, shape) ==
    /\ mounted
    /\ variant = "leaflet"
    /\ i \in 1..Len(layers)
    /\ shape /= layers[i]
    /\ layers' = [layers EXCEPT ![i] = shape]
    /\ aoiGeojson' = GeoJSON(HandleEditedRing(shape))
    /\ ev' = "handleEdited" /\ UNCHANGED mounted
    /\ UNCHANGED <<startDate, endDate, jobId, submitting, error, pollVars, submits,
                   backendVars, variant, rviLayerVisible, searchVars>>

\* Leaflet: the user saves the delete tool, having removed the layers or none
HandleDeleted ==
    /\ mounted
    /\ variant = "leaflet"
    /\ layers' \in {layers, <<>>}
    /\ aoiGeojson' = NoAOI
    /\ ev' = "handleDeleted" /\ UNCHANGED mounted
    /\ UNCHANGED <<startDate, endDate, jobId, submitting, error, pollVars, submits,
                   backendVars, variant, rviLayerVisible, searchVars>>

\* Dashboard.handlePolygonComplete of the Google Maps variant
GoogleRing(path) ==
    LET coordinates == [i \in 1..Len(path) |-> <<path[i].lng, path[i].lat>>]
    IN  Append(coordinates, coordinates[1])

\* Google Maps: polygoncomplete; the previous polygon is taken off the map
GooglePolygonComplete(path) ==
    /\ mounted
    /\ variant = "google"
    /\ layers' = <<path>>
    /\ aoiGeojson' = GeoJSON(GoogleRing(path))
    /\ ev' = "polygonComplete" /\ UNCHANGED mounted
    /\ UNCHANGED <<startDate, endDate, jobId, submitting, error, pollVars, submits,
                   backendVars, variant, rviLayerVisible, searchVars>>

\* Google Maps: set_at / insert_at on the path of the polygon on the map
GooglePathChanged(path) ==
    /\ mounted
    /\ variant = "google"
    /\ layers /= <<>>
    /\ path /= layers[1]
    /\ layers' = <<path>>
    /\ aoiGeojson' = GeoJSON(GoogleRing(path))
    /\ ev' = "pathChanged" /\ UNCHANGED mounted
    /\ UNCHANGED <<startDate, endDate, jobId, submitting, error, pollVars, submits,
                   backendVars, variant, rviLayerVisible, searchVars>>

\* the RVI tile layer is on the map
OverlayRendered == RviMapUrl(result) /= NoUrl /\ rviLayerVisible

ToggleRviClearsError ==
    /\ mounted
    /\ RviMapUrl(result) /= NoUrl
    /\ rviLayerVisible' = ~rviLayerVisible
    /\ error' = NoError
    /\ ev' = "toggleRvi" /\ UNCHANGED mounted
    /\ UNCHANGED <<aoiGeojson, startDate, endDate, jobId, submitting, pollVars,
                   submits, backendVars, variant, layers, searchVars>>

\* the checkbox "Show RVI Layer", shown while the result has an overlay URL
ToggleRvi ==
    /\ mounted
    /\ RviMapUrl(result) /= NoUrl
    /\ rviLayerVisible' = ~rviLayerVisible
    /\ ev' = "toggleRvi" /\ UNCHANGED mounted
    /\ UNCHANGED <<dashVars, pollVars, submits, backendVars, variant, layers,
                   searchVars>>

\* ------------------------------------------------------------- location search
\* Text is a sequence of one-character strings.
Space == " "
Comma == ","

RECURSIVE TrimStart(_)
TrimStart(s) == IF s /= <<>> /\ Head(s) = Space THEN TrimStart(Tail(s)) ELSE s

RECURSIVE TrimEnd(_)
TrimEnd(s) ==
    IF s /= <<>> /\ s[Len(s)] = Space THEN TrimEnd(SubSeq(s, 1, Len(s) - 1)) ELSE s

\* String.prototype.trim
Trim(s) == TrimEnd(TrimStart(s))

RECURSIVE FirstSegment(_)
\* s.split(",")[0]
FirstSegment(s) ==
    IF s = <<>> \/ Head(s) = Comma THEN <<>> ELSE <<Head(s)>> \o FirstSegment(Tail(s))

DigitValue(c) == CASE c = "0" -> 0 [] c = "1" -> 1 [] c = "2" -> 2 [] c = "3" -> 3
                   [] c = "4" -> 4 [] c = "5" -> 5 [] c = "6" -> 6 [] c = "7" -> 7
                   [] c = "8" -> 8 [] c = "9" -> 9

RECURSIVE ParseFloat(_)
\* parseFloat of a string of decimal digits
ParseFloat(s) ==
    IF s = <<>> THEN 0 ELSE 10 * ParseFloat(SubSeq(s, 1, Len(s) - 1)) + DigitValue(s[Len(s)])

\* What the geocoder knows: Nominatim items {place_id, display_name, type, lat, lon}
Pakistan == [place_id |-> 1, display_name |-> <<"P", "k">>, type |-> "country",
             lat |-> <<"3", "0">>, lon |-> <<"6", "9">>]
Punjab == [place_id |-> 2, display_name |-> <<"P", "u", "n", ",", " ", "P", "k">>,
           type |-> "state", lat |-> <<"3", "1">>, lon |-> <<"7", "2">>]
Lahore == [place_id |-> 3, display_name |-> <<"L", "h", "r", ",", " ", "P", "u", "n">>,
           type |-> "city", lat |-> <<"3", "2">>, lon |-> <<"7", "4">>]
Kasur == [place_id |-> 4, display_name |-> <<"K", "s", "r", ",", " ", "P", "u", "n">>,
          type |-> "village", lat |-> <<"3", "1">>, lon |-> <<"7", "5">>]
Items == {Pakistan, Punjab, Lahore, Kasur}
NoItem == [place_id |-> 0, display_name |-> <<>>, type |-> "null", lat |-> <<>>,
           lon |-> <<>>]

\* responses of the suggestion request: ranked lists without repetition, of the
\* places the typed queries are prefixes of
SuggestionLists ==
    {s \in UNION {[1..n -> Items \ {Kasur}] : n \in 0..MaxResults} :
        \A i, j \in 1..Len(s) : i < j => s[i].place_id > s[j].place_id}
\* responses of the top-result lookup (limit=1)
LookupLists == {<<>>} \cup {<<i>> : i \in Items}

\* what the user can put into the input
TypedQueries == {<<>>, <<"L", "h">>, <<"L", "h", "r">>, <<"L", "h", "r", " ">>,
                 <<"P", "u", "n", "j">>, <<" ", "P", " ", " ">>}

NoTimer == <<"none">>
NoFlyTo == [center |-> <<>>, zoom |-> 0]
NoSearchResult == [center |-> <<>>, label |-> <<>>]
ErrNoResults == "No results found for that location."
ErrSearchFailed == "Search failed. Check your connection."
MinQueryLength == 3

EffectTimerKeepsPending(old, new) ==
    IF new = old THEN debounceTimer
    ELSE IF Len(Trim(new)) < MinQueryLength THEN debounceTimer
    ELSE Trim(new)

EffectTimerOffByOne(old, new) ==
    IF new = old THEN debounceTimer
    ELSE IF Len(Trim(new)) < MinQueryLength - 1 THEN NoTimer
    ELSE Trim(new)

\* The debounced-autocomplete effect, re-run when searchQuery changed from old to
\* new: the pending timer after it (a pending timer is the query it will request)
EffectTimer(old, new) ==
    IF new = old THEN debounceTimer
    ELSE IF Len(Trim(new)) < MinQueryLength THEN NoTimer
    ELSE Trim(new)

\* ... and whether it clears the suggestions
EffectClears(old, new) == new /= old /\ Len(Trim(new)) < MinQueryLength

ZoomStateAsClose(item) == IF item.type = "country" THEN 5 ELSE 14

Zoom(item) == IF item.type = "country" THEN 5 ELSE IF item.type = "state" THEN 7 ELSE 14
Center(item) == <<ParseFloat(item.lat), ParseFloat(item.lon)>>
ShortName(item) == Trim(FirstSegment(item.display_name))

\* goToResult(item), with the autocomplete effect its setSearchQuery triggers
GoToResult(item) ==
    /\ cachedItem' = item
    /\ flyTo' = [center |-> Center(item), zoom |-> Zoom(item)]
    /\ searchResult' = [center |-> Center(item), label |-> item.display_name]
    /\ searchQuery' = ShortName(item)
    /\ suggestions' = <<>>
    /\ showSuggestions' = FALSE
    /\ searchError' = ""
    /\ debounceTimer' = EffectTimer(searchQuery, ShortName(item))

OnChangeKeepsCache(v) ==
    /\ mounted
    /\ v /= searchQuery
    /\ searchQuery' = v
    /\ searchError' = ""
    /\ debounceTimer' = EffectTimer(searchQuery, v)
    /\ IF EffectClears(searchQuery, v)
       THEN suggestions' = <<>> /\ showSuggestions' = FALSE
       ELSE UNCHANGED <<suggestions, showSuggestions>>
    /\ ev' = "onChange" /\ UNCHANGED mounted
    /\ UNCHANGED <<cachedItem, isSearching, searchResult, flyTo, geoRequests, dashVars,
                   pollVars, submits, backendVars, mapVars>>

\* the input's onChange
OnChange(v) ==
    /\ mounted
    /\ v /= searchQuery
    /\ searchQuery' = v
    /\ searchError' = ""
    /\ cachedItem' = NoItem
    /\ debounceTimer' = EffectTimer(searchQuery, v)
    /\ IF EffectClears(searchQuery, v)
       THEN suggestions' = <<>> /\ showSuggestions' = FALSE
       ELSE UNCHANGED <<suggestions, showSuggestions>>
    /\ ev' = "onChange" /\ UNCHANGED mounted
    /\ UNCHANGED <<isSearching, searchResult, flyTo, geoRequests, dashVars, pollVars,
                   submits, backendVars, mapVars>>

\* the debounce timer expires: the suggestion request (limit=5) is sent
DebounceFire ==
    /\ debounceTimer /= NoTimer
    /\ BagCardinality(geoRequests) < MaxGeoInFlight
    /\ geoRequests' = geoRequests (+) SetToBag({[kind |-> "suggest", q |-> debounceTimer]})
    /\ debounceTimer' = NoTimer
    /\ ev' = "debounceFire" /\ UNCHANGED mounted
    /\ UNCHANGED <<searchQuery, suggestions, isSearching, searchError, searchResult,
                   flyTo, showSuggestions, cachedItem, dashVars, pollVars, submits,
                   backendVars, mapVars>>

\* the suggestion request returns data
SuggestResolve(r, data) ==
    /\ r \in BagToSet(geoRequests)
    /\ r.kind = "suggest"
    /\ geoRequests' = geoRequests (-) SetToBag({r})
    /\ IF mounted
       THEN suggestions' = data /\ showSuggestions' = (Len(data) > 0)
       ELSE UNCHANGED <<suggestions, showSuggestions>>
    /\ ev' = "suggestResolve" /\ UNCHANGED mounted
    /\ UNCHANGED <<searchQuery, isSearching, searchError, searchResult, flyTo,
                   debounceTimer, cachedItem, dashVars, pollVars, submits,
                   backendVars, mapVars>>

\* the suggestion request fails
SuggestReject(r) ==
    /\ r \in BagToSet(geoRequests)
    /\ r.kind = "suggest"
    /\ geoRequests' = geoRequests (-) SetToBag({r})
    /\ suggestions' = IF mounted THEN <<>> ELSE suggestions
    /\ ev' = "suggestReject" /\ UNCHANGED mounted
    /\ UNCHANGED <<searchQuery, isSearching, searchError, searchResult, flyTo,
                   showSuggestions, debounceTimer, cachedItem, dashVars, pollVars,
                   submits, backendVars, mapVars>>

\* onMouseDown on the i-th suggestion of the rendered list
PickSuggestion(i) ==
    /\ mounted
    /\ showSuggestions
    /\ i \in 1..Len(suggestions)
    /\ GoToResult(suggestions[i])
    /\ ev' = "pickSuggestion" /\ UNCHANGED mounted
    /\ UNCHANGED <<isSearching, geoRequests, dashVars, pollVars, submits, backendVars,
                   mapVars>>

HandleSearchIgnoresCache ==
    /\ mounted
    /\ ~isSearching
    /\ IF Trim(searchQuery) = <<>>
       THEN UNCHANGED searchVars
       ELSE /\ BagCardinality(geoRequests) < MaxGeoInFlight
            /\ isSearching' = TRUE
            /\ searchError' = ""
            /\ suggestions' = <<>>
            /\ showSuggestions' = FALSE
            /\ geoRequests' = geoRequests
                                (+) SetToBag({[kind |-> "lookup", q |-> Trim(searchQuery)]})
            /\ UNCHANGED <<searchQuery, searchResult, flyTo, debounceTimer, cachedItem>>
    /\ ev' = "handleSearch" /\ UNCHANGED mounted
    /\ UNCHANGED <<dashVars, pollVars, submits, backendVars, mapVars>>

\* the form's onSubmit, up to the await; the submit button is disabled while
\* isSearching
HandleSearch ==
    /\ mounted
    /\ ~isSearching
    /\ IF Trim(searchQuery) = <<>>
       THEN UNCHANGED searchVars
       ELSE IF cachedItem /= NoItem
       THEN GoToResult(cachedItem) /\ UNCHANGED <<isSearching, geoRequests>>
       ELSE /\ BagCardinality(geoRequests) < MaxGeoInFlight
            /\ isSearching' = TRUE
            /\ searchError' = ""
            /\ suggestions' = <<>>
            /\ showSuggestions' = FALSE
            /\ geoRequests' = geoRequests
                                (+) SetToBag({[kind |-> "lookup", q |-> Trim(searchQuery)]})
            /\ UNCHANGED <<searchQuery, searchResult, flyTo, debounceTimer, cachedItem>>
    /\ ev' = "handleSearch" /\ UNCHANGED mounted
    /\ UNCHANGED <<dashVars, pollVars, submits, backendVars, mapVars>>

\* the top-result lookup returns data
LookupResolve(r, data) ==
    /\ r \in BagToSet(geoRequests)
    /\ r.kind = "lookup"
    /\ geoRequests' = geoRequests (-) SetToBag({r})
    /\ IF ~mounted
       THEN UNCHANGED <<searchQuery, suggestions, isSearching, searchError,
                        searchResult, flyTo, showSuggestions, debounceTimer,
                        cachedItem>>
       ELSE /\ IF Len(data) > 0
               THEN GoToResult(data[1])
               ELSE /\ searchError' = ErrNoResults
                    /\ searchResult' = NoSearchResult
                    /\ UNCHANGED <<searchQuery, suggestions, flyTo, showSuggestions,
                                   debounceTimer, cachedItem>>
            /\ isSearching' = FALSE
    /\ ev' = "lookupResolve" /\ UNCHANGED mounted
    /\ UNCHANGED <<dashVars, pollVars, submits, backendVars, mapVars>>

LookupRejectAsNoResults(r) ==
    /\ r \in BagToSet(geoRequests)
    /\ r.kind = "lookup"
    /\ geoRequests' = geoRequests (-) SetToBag({r})
    /\ IF mounted
       THEN /\ searchError' = ErrNoResults
            /\ searchResult' = NoSearchResult
            /\ isSearching' = FALSE
       ELSE UNCHANGED <<searchError, searchResult, isSearching>>
    /\ ev' = "lookupReject" /\ UNCHANGED mounted
    /\ UNCHANGED <<searchQuery, suggestions, flyTo, showSuggestions, debounceTimer,
                   cachedItem, dashVars, pollVars, submits, backendVars, mapVars>>

\* the top-result lookup fails
LookupReject(r) ==
    /\ r \in BagToSet(geoRequests)
    /\ r.kind = "lookup"
    /\ geoRequests' = geoRequests (-) SetToBag({r})
    /\ IF mounted
       THEN /\ searchError' = ErrSearchFailed
            /\ searchResult' = NoSearchResult
            /\ isSearching' = FALSE
       ELSE UNCHANGED <<searchError, searchResult, isSearching>>
    /\ ev' = "lookupReject" /\ UNCHANGED mounted
    /\ UNCHANGED <<searchQuery, suggestions, flyTo, showSuggestions, debounceTimer,
                   cachedItem, dashVars, pollVars, submits, backendVars, mapVars>>

HandleClearKeepsTimer ==
    /\ mounted
    /\ searchQuery /= <<>>
    /\ searchQuery' = <<>>
    /\ suggestions' = <<>>
    /\ showSuggestions' = FALSE
    /\ searchError' = ""
    /\ searchResult' = NoSearchResult
    /\ flyTo' = NoFlyTo
    /\ cachedItem' = NoItem
    /\ ev' = "handleClear" /\ UNCHANGED mounted
    /\ UNCHANGED <<debounceTimer, isSearching, geoRequests, dashVars, pollVars,
                   submits, backendVars, mapVars>>

\* the clear button, rendered while the input holds text
HandleClear ==
    /\ mounted
    /\ searchQuery /= <<>>
    /\ searchQuery' = <<>>
    /\ suggestions' = <<>>
    /\ showSuggestions' = FALSE
    /\ searchError' = ""
    /\ searchResult' = NoSearchResult
    /\ flyTo' = NoFlyTo
    /\ cachedItem' = NoItem
    /\ debounceTimer' = EffectTimer(searchQuery, <<>>)
    /\ ev' = "handleClear" /\ UNCHANGED mounted
    /\ UNCHANGED <<isSearching, geoRequests, dashVars, pollVars, submits, backendVars,
                   mapVars>>

HandleOutsideClickClearsList ==
    /\ mounted
    /\ showSuggestions' = FALSE
    /\ suggestions' = <<>>
    /\ ev' = "outsideClick" /\ UNCHANGED mounted
    /\ UNCHANGED <<searchQuery, isSearching, searchError, searchResult,
                   flyTo, debounceTimer, cachedItem, geoRequests, dashVars, pollVars,
                   submits, backendVars, mapVars>>

\* mousedown outside the search wrapper
HandleOutsideClick ==
    /\ mounted
    /\ showSuggestions' = FALSE
    /\ ev' = "outsideClick" /\ UNCHANGED mounted
    /\ UNCHANGED <<searchQuery, suggestions, isSearching, searchError, searchResult,
                   flyTo, debounceTimer, cachedItem, geoRequests, dashVars, pollVars,
                   submits, backendVars, mapVars>>

\* the input's onFocus
OnFocus ==
    /\ mounted
    /\ Len(suggestions) > 0
    /\ showSuggestions' = TRUE
    /\ ev' = "onFocus" /\ UNCHANGED mounted
    /\ UNCHANGED <<searchQuery, suggestions, isSearching, searchError, searchResult,
                   flyTo, debounceTimer, cachedItem, geoRequests, dashVars, pollVars,
                   submits, backendVars, mapVars>>

\* ------------------------------------------------------------- disposal
UnmountLeavesTimer ==
    /\ mounted
    /\ mounted' = FALSE
    /\ aoiGeojson' = NoAOI /\ startDate' = "" /\ endDate' = ""
    /\ jobId' = NoJob /\ submitting' = FALSE /\ error' = NoError
    /\ result' = NoResult /\ polling' = FALSE
    /\ layers' = <<>> /\ rviLayerVisible' = TRUE
    /\ searchQuery' = <<>> /\ suggestions' = <<>> /\ isSearching' = FALSE
    /\ searchError' = "" /\ searchResult' = NoSearchResult /\ flyTo' = NoFlyTo
    /\ showSuggestions' = FALSE /\ cachedItem' = NoItem
    /\ debounceTimer' = NoTimer
    /\ UNCHANGED <<timers, timerRef, timerSeq, fetches, submits, backendVars, variant,
                   geoRequests, ev>>

\* App stops rendering the Dashboard (the user signs out): the cleanups of the
\* effects run, and the state of the Dashboard and of its children is gone.
\* Requests in flight stay in flight, and the refs stay with their closures.
Unmount ==
    /\ mounted
    /\ mounted' = FALSE
    /\ timers' = Cleanup(jobId)
    /\ aoiGeojson' = NoAOI /\ startDate' = "" /\ endDate' = ""
    /\ jobId' = NoJob /\ submitting' = FALSE /\ error' = NoError
    /\ result' = NoResult /\ polling' = FALSE
    /\ layers' = <<>> /\ rviLayerVisible' = TRUE
    /\ searchQuery' = <<>> /\ suggestions' = <<>> /\ isSearching' = FALSE
    /\ searchError' = "" /\ searchResult' = NoSearchResult /\ flyTo' = NoFlyTo
    /\ showSuggestions' = FALSE /\ cachedItem' = NoItem
    /\ debounceTimer' = NoTimer
    /\ UNCHANGED <<timerRef, timerSeq, fetches, submits, backendVars, variant,
                   geoRequests, ev>>

\* ------------------------------------------------------------- specifications
Init ==
    /\ aoiGeojson = NoAOI /\ startDate = "" /\ endDate = ""
    /\ jobId = NoJob /\ submitting = FALSE /\ error = NoError
    /\ result = NoResult /\ polling = FALSE /\ timerRef = 0
    /\ timers = {} /\ timerSeq = 0 /\ fetches = EmptyBag /\ submits = EmptyBag
    /\ issued = 0 /\ remote = [j \in JobIds |-> "pending"]
    /\ variant \in {"leaflet", "google"} /\ layers = <<>> /\ rviLayerVisible = TRUE
    /\ searchQuery = <<>> /\ suggestions = <<>> /\ isSearching = FALSE
    /\ searchError = "" /\ searchResult = NoSearchResult /\ flyTo = NoFlyTo
    /\ showSuggestions = FALSE /\ debounceTimer = NoTimer /\ cachedItem = NoItem
    /\ geoRequests = EmptyBag
    /\ ev = "init"
    /\ mounted = TRUE

\* the Dashboard's form with every input: the dates are chosen and cleared, the
\* square is drawn and deleted, jobs are submitted and run to their end on the
\* first fetch of each (no timer tick)
NextForm ==
    \/ \E d \in StartDates : SetStartDate(d)
    \/ \E d \in EndDates : SetEndDate(d)
    \/ HandleCreated(Square)
    \/ HandleDeleted
    \/ HandleAnalyze
    \/ \E r \in BagToSet(submits) : AnalyzeResolve(r)
    \/ \E r \in BagToSet(submits) : AnalyzeReject(r)
    \/ HandleReset
    \/ \E f \in BagToSet(fetches) : ServeStatus(f)
    \/ \E f \in BagToSet(fetches) : PollResolve(f)
    \/ \E j \in JobIds : JobAdvance(j)

\* the overlay checkbox under a Dashboard whose form is filled in once: jobs are
\* submitted and run to their end on the first fetch of each, and the overlay
\* of the result held is switched off and on
NextOverlay ==
    \/ SetStartDate("2024-01-01")
    \/ SetEndDate("2024-06-01")
    \/ HandleCreated(Square)
    \/ HandleAnalyze
    \/ \E r \in BagToSet(submits) : AnalyzeResolve(r)
    \/ \E r \in BagToSet(submits) : AnalyzeReject(r)
    \/ \E f \in BagToSet(fetches) : ServeStatus(f)
    \/ \E f \in BagToSet(fetches) : PollResolve(f)
    \/ \E j \in JobIds : JobAdvance(j)
    \/ ToggleRvi

\* the poller under a Dashboard whose form is only ever filled in: the dates are
\* chosen, the square is drawn, and the jobs run
NextPoll ==
    \/ SetStartDate("2024-01-01")
    \/ SetEndDate("2024-06-01")
    \/ HandleCreated(Square)
    \/ HandleAnalyze
    \/ \E r \in BagToSet(submits) : AnalyzeResolve(r)
    \/ \E r \in BagToSet(submits) : AnalyzeReject(r)
    \/ HandleReset
    \/ Tick
    \/ \E f \in BagToSet(fetches) : ServeStatus(f)
    \/ \E f \in BagToSet(fetches) : PollResolve(f)
    \/ \E f \in BagToSet(fetches) : PollReject(f)
    \/ \E j \in JobIds : JobAdvance(j)
    \/ Unmount

\* the poller from the first submission on: the form is filled in, jobs are
\* submitted one after the other and accepted, the interval fires, fetches
\* overlap, come back in any order or fail, and the jobs run
NextPollFair ==
    \/ SetStartDate("2024-01-01")
    \/ SetEndDate("2024-06-01")
    \/ HandleCreated(Square)
    \/ HandleAnalyze
    \/ \E r \in BagToSet(submits) : AnalyzeResolve(r)
    \/ Tick
    \/ \E f \in BagToSet(fetches) : ServeStatus(f)
    \/ \E f \in BagToSet(fetches) : PollResolve(f)
    \/ \E f \in BagToSet(fetches) : PollReject(f)
    \/ \E j \in JobIds : JobAdvance(j)

\* the drawing events of both map widgets, over every shape, and reset
NextMap ==
    \/ \E s \in Shapes : HandleCreated(s)
    \/ \E i \in 1..Len(layers), s \in EditedShapes : HandleEdited(i, s)
    \/ HandleDeleted
    \/ \E s \in Shapes : GooglePolygonComplete(s)
    \/ \E s \in EditedShapes : GooglePathChanged(s)
    \/ HandleReset

\* the location search of the Leaflet MapComponent
NextSearch ==
    \/ \E v \in TypedQueries : OnChange(v)
    \/ DebounceFire
    \/ \E r \in BagToSet(geoRequests), data \in SuggestionLists : SuggestResolve(r, data)
    \/ \E r \in BagToSet(geoRequests) : SuggestReject(r)
    \/ \E i \in 1..MaxResults : PickSuggestion(i)
    \/ HandleSearch
    \/ \E r \in BagToSet(geoRequests), data \in LookupLists : LookupResolve(r, data)
    \/ \E r \in BagToSet(geoRequests) : LookupReject(r)
    \/ HandleClear
    \/ HandleOutsideClick
    \/ OnFocus

\* one analysis from the first click to its end: the user fills in the form and
\* submits once, the backend accepts the request and the job runs through
\* pending and processing to completed, and every status fetch is answered
\* before the interval's next tick
SubmitOnce == issued = 0 /\ HandleAnalyze
TickInTurn == fetches = EmptyBag /\ Tick
JobSucceeds(j) == JobAdvance(j) /\ remote'[j] /= "failed"

NextE2E ==
    \/ \E d \in StartDates : SetStartDate(d)
    \/ \E d \in EndDates : SetEndDate(d)
    \/ HandleCreated(Square)
    \/ SubmitOnce
    \/ \E r \in BagToSet(submits) : AnalyzeResolve(r)
    \/ TickInTurn
    \/ \E f \in BagToSet(fetches) : ServeStatus(f)
    \/ \E f \in BagToSet(fetches) : PollResolve(f)
    \/ JobSucceeds(1)

Next == NextForm \/ NextOverlay \/ NextPoll \/ NextPollFair \/ NextMap \/ NextSearch \/ NextE2E

\* the Leaflet build of the page (the one the Dashboard ships with)
InitLeaflet == Init /\ variant = "leaflet"

Spec == Init /\ [][Next]_vars
SpecForm == InitLeaflet /\ [][NextForm]_vars
SpecOverlay == InitLeaflet /\ [][NextOverlay]_vars
SpecPoll == InitLeaflet /\ [][NextPoll]_vars
\* the poller when the interval keeps firing, every fetch reaches the backend
\* and comes back or fails, the responses carrying a terminal status are not
\* all lost, and every job the backend runs reaches its end
SpecPollFair ==
    /\ InitLeaflet /\ [][NextPollFair]_vars
    /\ WF_vars(Tick)
    /\ SF_vars(\E f \in BagToSet(fetches) : ServeStatus(f))
    /\ WF_vars(\E f \in BagToSet(fetches) : PollResolve(f) \/ PollReject(f))
    /\ SF_vars(\E f \in BagToSet(fetches) : Terminal(f.status) /\ PollResolve(f))
    /\ \A j \in JobIds : WF_vars(JobAdvance(j))
SpecMap == Init /\ [][NextMap]_vars
SpecSearch == InitLeaflet /\ [][NextSearch]_vars
\* the requests are answered, the interval fires and the job runs; the user is
\* under no obligation
SpecE2E ==
    /\ InitLeaflet /\ [][NextE2E]_vars
    /\ WF_vars(\E r \in BagToSet(submits) : AnalyzeResolve(r))
    /\ WF_vars(TickInTurn)
    /\ WF_vars(\E f \in BagToSet(fetches) : ServeStatus(f))
    /\ WF_vars(\E f \in BagToSet(fetches) : PollResolve(f))
    /\ WF_vars(JobSucceeds(1))

\* ------------------------------------------------------------- job poller
\* C1: a status response fetched for job X changes the held result only if X is
\* still the tracked job identifier when it arrives (a late response for a
\* superseded job is dropped).
C1_StaleStatusDropped ==
    [][\A f \in BagToSet(fetches) :
          (PollResolve(f) /\ f.job /= jobId) => result' = result]_vars

\* C2: at most one interval timer is active, it belongs to the tracked job and is
\* the one timerRef holds, and every fetch a tick issues is for the tracked job.
C2_OneTimerForTrackedJob ==
    [][/\ Cardinality(timers') <= 1
       /\ \A t \in timers' : t.job = jobId' /\ t.id = timerRef'
       /\ Tick => fetches' = fetches (+) SetToBag({[job |-> jobId, status |-> "sent"]})]_vars

C2_SecondJobPolled ==
    /\ jobId = 2
    /\ timers = {[id |-> 2, job |-> 2]}
    /\ BagToSet(fetches) = {[job |-> 2, status |-> "sent"]}
    /\ BagCardinality(fetches) = 2

\* C3: once a terminal status of the tracked job is the held result, the interval
\* is cancelled, the polling flag is false and no tick can issue a further fetch.
C3_TerminalStopsPolling ==
    (jobId /= NoJob /\ result.job = jobId /\ Terminal(result.status))
        => (timers = {} /\ ~polling /\ ~ENABLED Tick)

C3_CompletedObserved ==
    /\ jobId /= NoJob
    /\ result = [job |-> jobId, status |-> "completed"]
    /\ remote[jobId] = "completed"
    /\ timers = {}

\* C4: a status fetch that throws leaves the timer, the polling flag, the held
\* result and the Dashboard's error as they were, so the interval keeps ticking.
C4_FetchFailureKeepsPolling ==
    [][\A f \in BagToSet(fetches) :
          PollReject(f) => UNCHANGED <<timers, timerRef, polling, result, error, jobId>>]_vars

\* the first fetch of the tracked job is gone and no result was ever set: it
\* failed, and the interval is still there
C4_FailedFetchWhilePolling ==
    /\ jobId /= NoJob /\ polling /\ timers /= {}
    /\ fetches = EmptyBag
    /\ result = NoResult
    /\ ENABLED Tick

\* C12: once the submitted request has come back with job 1, the job having run
\* through processing to completed with the prediction Stressed / 82, the page
\* ends up, and stays, with the completed result held, the panel showing
\* Stressed and 82, polling stopped, no timer and no fetch in flight.
C12_Final ==
    /\ result = [job |-> 1, status |-> "completed"]
    /\ ResultsPanel(result) = [view |-> "results", label |-> "Stressed", confidence |-> 82]
    /\ ~polling /\ timers = {} /\ fetches = EmptyBag

C12_EndToEnd == (jobId = 1) ~> [](C12_Final /\ jobId = 1)

C12_CompletedShown ==
    /\ C12_Final /\ jobId = 1 /\ issued = 1
    /\ startDate = "2024-01-01" /\ endDate = "2024-06-01"
    /\ Len(aoiGeojson.coordinates[1]) = 5
    /\ ~ENABLED Tick

\* a status fetch for job j is sent in this step
FetchIssuedFor(j) ==
    CopiesIn([job |-> j, status |-> "sent"], fetches')
        > CopiesIn([job |-> j, status |-> "sent"], fetches)

\* C16: a timer is active only for the job a rendered Dashboard tracks, and a
\* status fetch is sent only for that job; a job identifier that replaces
\* another is a new one.  So once a job is replaced or cleared, or the Dashboard
\* is disposed, its timer is gone and no fetch is sent for it again.
C16_NoTimerNoFetchAfterTeardown ==
    [][/\ \A t \in timers' : mounted' /\ t.job = jobId'
       /\ \A j \in JobIds : FetchIssuedFor(j) => mounted' /\ j = jobId'
       /\ (jobId' /= jobId /\ jobId' /= NoJob) => jobId' > issued]_vars

\* the Dashboard is gone, the first fetch of job 1 still unanswered and the job
\* still pending: no timer is left to tick
C16_DisposedWithFetchInFlight ==
    /\ ~mounted
    /\ timerRef = 1 /\ issued = 1 /\ remote[1] = "pending"
    /\ fetches = SetToBag({[job |-> 1, status |-> "sent"]})
    /\ timers = {} /\ ~ENABLED Tick

\* C20: when the tracked job identifier changes, by reset() or by a submission
\* that starts a new job, the result held for the previous job is dropped: no
\* result and no overlay URL are held right after.
C20_ResultClearedWithJob ==
    [][jobId' /= jobId => result' = NoResult /\ RviMapUrl(result') = NoUrl]_vars

\* ------------------------------------------------------------- orchestrator
\* C9: handleAnalyze without a polygon, or without a start or an end date, sets a
\* validation message, sends nothing, and leaves the job identifier, the polygon,
\* the dates and the submitting flag as they were.
C9_ValidationBlocksSubmit ==
    [][(HandleAnalyze /\ (aoiGeojson = NoAOI \/ startDate = "" \/ endDate = ""))
          => /\ error' \in {ErrNoAOI, ErrNoDates}
             /\ error' = ErrNoAOI <=> aoiGeojson = NoAOI
             /\ UNCHANGED <<submits, fetches, jobId, aoiGeojson, startDate, endDate,
                            submitting>>]_vars

C9_DateMissingRefused ==
    /\ error = ErrNoDates
    /\ aoiGeojson /= NoAOI
    /\ startDate /= "" /\ endDate = ""
    /\ submits = EmptyBag /\ ~submitting /\ jobId = NoJob

\* C14: reset() leaves no polygon, no job identifier and no error, cancels the
\* poll timer and has the polling flag false, and leaves both dates as they were.
C14_ResetClearsAndStops ==
    [][HandleReset
          => /\ aoiGeojson' = NoAOI /\ jobId' = NoJob /\ error' = NoError
             /\ timers' = {} /\ ~polling'
             /\ UNCHANGED <<startDate, endDate>>]_vars

\* job 1 was being polled, its first fetch still unanswered, when reset() ran
C14_ResetWhilePolling ==
    /\ mounted /\ jobId = NoJob /\ aoiGeojson = NoAOI /\ error = NoError
    /\ layers = <<Square>>
    /\ startDate = "2024-01-01" /\ endDate = "2024-06-01"
    /\ timerRef = 1 /\ timers = {} /\ ~polling
    /\ remote[1] = "pending" /\ result = NoResult
    /\ fetches = SetToBag({[job |-> 1, status |-> "sent"]})

\* C15: at most one job-submission request is outstanding; while one is, the
\* submitting flag is set and handleAnalyze cannot be invoked.
C15_OneSubmissionInFlight ==
    /\ BagCardinality(submits) <= 1
    /\ submits /= EmptyBag => submitting
    /\ submitting => ~ENABLED HandleAnalyze

\* the second analysis is being submitted, the first having completed
C15_ResubmitInFlight ==
    /\ submitting /\ BagCardinality(submits) = 1
    /\ jobId = 1 /\ result = [job |-> 1, status |-> "completed"]
    /\ ~polling

\* C21: when the request of a valid submit succeeds, the Dashboard tracks the
\* returned identifier, polling is on, the one timer is that job's, and the first
\* status fetch for it is sent in the same step, before any tick; when it fails,
\* the error is the remote detail or the generic message, the job identifier is
\* unchanged and no session starts.  Either way submitting is false afterwards.
C21_SubmitOutcome ==
    [][/\ \A r \in BagToSet(submits) :
            (mounted /\ AnalyzeResolve(r))
                => /\ r.aoiGeojson /= NoAOI /\ r.startDate /= "" /\ r.endDate /= ""
                   /\ jobId' = issued' /\ jobId' \notin {NoJob, jobId}
                   /\ polling' /\ timers' = {[id |-> timerRef', job |-> jobId']}
                   /\ fetches' = fetches (+) SetToBag({[job |-> jobId', status |-> "sent"]})
                   /\ ~submitting'
                   /\ UNCHANGED <<error, result>>
       /\ \A r \in BagToSet(submits) :
            (mounted /\ AnalyzeReject(r))
                => /\ error' \in {ErrRemoteDetail, ErrGeneric}
                   /\ UNCHANGED <<jobId, polling, timers, timerRef, fetches, issued>>
                   /\ ~submitting']_vars

\* job 1 has just been returned: its session is on and only its first fetch is out
C21_FirstFetchAtStart ==
    /\ jobId = 1 /\ issued = 1 /\ ~submitting /\ error = NoError
    /\ polling /\ timers = {[id |-> 1, job |-> 1]}
    /\ fetches = SetToBag({[job |-> 1, status |-> "sent"]})
    /\ submits = EmptyBag /\ result = NoResult /\ remote[1] = "pending"

\* C22: while a job stays tracked by the rendered Dashboard, its timer is
\* cancelled, or the polling flag dropped, only by a response that carries a
\* terminal status of that same job.
C22_OnlyOwnTerminalStops ==
    [][(mounted' /\ jobId' = jobId /\ (timers' /= timers \/ polling' /= polling))
          => \E f \in BagToSet(fetches) :
                 PollResolve(f) /\ f.job = jobId /\ Terminal(f.status)]_vars

\* ------------------------------------------------------------- geometry
\* C10: the polygon the Dashboard holds after a create or an edit, in either map
\* widget, is a ring of at least 4 positions whose first and last are equal.
C10_RingClosed ==
    aoiGeojson /= NoAOI =>
        LET ring == aoiGeojson.coordinates[1]
        IN  /\ aoiGeojson.type = "Polygon"
            /\ Len(ring) >= 4
            /\ ring[1] = ring[Len(ring)]

C10_EditedSquareHeld ==
    /\ ev = "handleEdited"
    /\ Len(layers) = 1 /\ Len(layers[1]) = 4
    /\ aoiGeojson /= NoAOI
    /\ Len(aoiGeojson.coordinates[1]) = 5
    /\ aoiGeojson.coordinates[1][1] = <<layers[1][1].lng, layers[1][1].lat>>

\* the ring of a vertex list v1..vn: (lng, lat) pairs in order, closed by v1
ClosedRing(shape) ==
    [i \in 1..(Len(shape) + 1) |->
        IF i <= Len(shape) THEN <<shape[i].lng, shape[i].lat>>
        ELSE <<shape[1].lng, shape[1].lat>>]

\* a create event of either map widget happens in this step
CreateStep ==
    /\ ev' \in {"handleCreated", "polygonComplete"}
    /\ aoiGeojson' /= NoAOI
    /\ <<ev, layers, aoiGeojson>>' /= <<ev, layers, aoiGeojson>>

\* C11: at most one shape is ever on the map, and a create event, in either map
\* widget and whatever was drawn before, leaves exactly one shape on the map, the
\* created one, and makes the Dashboard's polygon the ring of that shape.
C11_OneShapeNewestTracked ==
    [][/\ Len(layers') <= 1
       /\ CreateStep
            => /\ Len(layers') = 1
               /\ aoiGeojson' = [type |-> "Polygon",
                                 coordinates |-> <<ClosedRing(layers'[1])>>]]_vars

\* a triangle was created on the Leaflet map and is the one shape held
C11_TriangleReplacedShape ==
    /\ variant = "leaflet" /\ ev = "handleCreated"
    /\ Len(layers) = 1 /\ Len(layers[1]) = 3
    /\ aoiGeojson /= NoAOI
    /\ Len(aoiGeojson.coordinates[1]) = 4
    /\ aoiGeojson.coordinates[1][4] = <<layers[1][1].lng, layers[1][1].lat>>

\* the ring C26 and C27 state for a vertex list: (lng, lat) pairs in vertex
\* order, the first one repeated at the end unless the list already ends with it
Normalize(shape) ==
    IF shape[Len(shape)] = shape[1] THEN MapLngLat(shape)
    ELSE Append(MapLngLat(shape), <<shape[1].lng, shape[1].lat>>)

\* C28: switching the overlay's visibility flips the visibility flag and leaves
\* the job identifier, the result, the polling flag, the interval timer, the
\* submission flag and the error as they were; the overlay is on the map exactly
\* when the result carries an overlay URL and the flag is on.
C28_ToggleOnlyVisibility ==
    [][ToggleRvi =>
        /\ rviLayerVisible' = ~rviLayerVisible
        /\ UNCHANGED <<jobId, result, polling, timers, timerRef, submitting, error>>
        /\ OverlayRendered = rviLayerVisible
        /\ OverlayRendered' = rviLayerVisible']_vars

\* the overlay of job 1 was switched off while the next submission is in flight
C28_HiddenWhileSubmitting ==
    /\ ev = "toggleRvi" /\ ~rviLayerVisible /\ ~OverlayRendered
    /\ result.job = 1 /\ RviMapUrl(result) /= NoUrl
    /\ submitting /\ jobId = 1

\* C29: once the result held for the tracked job has a terminal status, it keeps
\* a terminal status for as long as that job is tracked, in whatever order the
\* status fetches for the job are answered.
C29_TerminalStays ==
    [][(/\ mounted'
        /\ jobId /= NoJob /\ jobId' = jobId
        /\ result /= NoResult /\ result.job = jobId /\ Terminal(result.status)
        /\ result' /= NoResult /\ result'.job = jobId)
            => Terminal(result'.status)]_vars

\* C30: the polling flag is set exactly when an interval timer is running.
C30_FlagIffTimer == polling <=> timers /= {}

\* the second job was polled on the second timer and reached its end, and
\* neither the flag nor a timer is left
C30_StoppedAtEnd ==
    /\ mounted /\ jobId = 2 /\ timerRef = 2 /\ ~polling /\ timers = {}
    /\ result /= NoResult /\ result.job = 2 /\ Terminal(result.status)

\* C26: the polygon held is the ring of the shape on the map as the normalizer
\* is specified: vertices in order as (lng, lat), closed by a copy of the first
\* vertex only when the shape does not already end with it, so that the ring
\* never ends with two copies of the first vertex.
C26_ClosedOnce ==
    aoiGeojson /= NoAOI =>
        LET ring == aoiGeojson.coordinates[1]
            n == Len(ring)
        IN  /\ Len(layers) = 1
            /\ ring = Normalize(layers[1])
            /\ ~(ring[n] = ring[1] /\ ring[n - 1] = ring[1])

\* C27: a create or an edit event makes the polygon the normalization of the
\* shape the event carries, whatever the polygon was before, and after a delete
\* event the polygon is the absent value.
C27_LastEventDecides ==
    [][/\ (/\ ev' \in {"handleCreated", "polygonComplete", "handleEdited", "pathChanged"}
           /\ aoiGeojson' /= NoAOI
           /\ <<ev, layers, aoiGeojson>>' /= <<ev, layers, aoiGeojson>>)
            => /\ Len(layers') = 1
               /\ aoiGeojson' = [type |-> "Polygon",
                                 coordinates |-> <<Normalize(layers'[1])>>]
       /\ ev' = "handleDeleted" => aoiGeojson' = NoAOI]_vars

\* ------------------------------------------------------------- location search
\* a geocoding request of the kind is sent in this step
Issued(kind) ==
    \E r \in BagToSet(geoRequests') :
        r.kind = kind /\ CopiesIn(r, geoRequests') > CopiesIn(r, geoRequests)

\* C5: a suggestion response for a query that is no longer the current one never
\* updates the suggestion list.
C5_StaleSuggestionsDropped ==
    [][\A r \in BagToSet(geoRequests), data \in SuggestionLists :
          (SuggestResolve(r, data) /\ r.q /= Trim(searchQuery))
              => UNCHANGED <<suggestions, showSuggestions>>]_vars

\* C6: a pending debounce timer is always the one of the current query, of trimmed
\* length >= 3, and is started only by a change of the text; a suggestion request
\* is sent only when that timer expires, it is the only request sent then, it is
\* for the current trimmed query, and the timer is spent.
C6_OneRequestForLatestQuery ==
    [][/\ debounceTimer' /= NoTimer
            => /\ debounceTimer' = Trim(searchQuery')
               /\ Len(debounceTimer') >= MinQueryLength
       /\ (debounceTimer = NoTimer /\ debounceTimer' /= NoTimer)
            => searchQuery' /= searchQuery
       /\ Issued("suggest")
            => /\ debounceTimer = Trim(searchQuery)
               /\ debounceTimer' = NoTimer
               /\ searchQuery' = searchQuery
               /\ geoRequests' = geoRequests
                    (+) SetToBag({[kind |-> "suggest", q |-> Trim(searchQuery)]})
       /\ DebounceFire => Issued("suggest")]_vars

C6_RequestForTypedQuery ==
    /\ ev = "debounceFire"
    /\ searchQuery = <<"L", "h", "r", " ">>
    /\ debounceTimer = NoTimer
    /\ geoRequests = SetToBag({[kind |-> "suggest", q |-> <<"L", "h", "r">>]})

Rank(type) == IF type = "country" THEN 1 ELSE IF type = "state" THEN 2 ELSE 3

\* a candidate becomes the selection in this step (picked or looked up)
SelectStep == cachedItem' /= NoItem /\ (cachedItem' /= cachedItem \/ flyTo' /= flyTo)

\* C13: the zoom requested when a candidate is selected is the same for every
\* candidate of the same kind (country, state, other) and is strictly smaller
\* for a country than for a state, and for a state than for any other kind.
C13_ZoomOrderedByKind ==
    [][SelectStep =>
          \A other \in Items :
              /\ Rank(other.type) = Rank(cachedItem'.type) => Zoom(other) = flyTo'.zoom
              /\ Rank(other.type) < Rank(cachedItem'.type) => Zoom(other) < flyTo'.zoom
              /\ Rank(other.type) > Rank(cachedItem'.type) => Zoom(other) > flyTo'.zoom]_vars

\* a state was picked from the list
C13_StatePicked ==
    /\ ev = "pickSuggestion"
    /\ cachedItem = Punjab
    /\ flyTo.zoom > 5 /\ flyTo.zoom < 14
    /\ flyTo.center = <<31, 72>>

\* C8: a form submit while a selection is cached sends no request and starts no
\* timer; the text and the map target stay what the selection made them, and
\* the marker is the selection's.
C8_SubmitReusesCache ==
    [][(HandleSearch /\ cachedItem /= NoItem)
          => /\ UNCHANGED <<geoRequests, debounceTimer, isSearching, cachedItem>>
             /\ searchQuery' = searchQuery /\ searchQuery = ShortName(cachedItem)
             /\ flyTo' = flyTo
             /\ flyTo = [center |-> Center(cachedItem), zoom |-> Zoom(cachedItem)]
             /\ searchResult' = [center |-> Center(cachedItem),
                                 label |-> cachedItem.display_name]]_vars

C8_SubmittedAfterPick ==
    /\ ev = "handleSearch"
    /\ cachedItem = Lahore
    /\ searchQuery = <<"L", "h", "r">>
    /\ searchResult.label = Lahore.display_name
    /\ ~isSearching
    /\ geoRequests = EmptyBag

\* C17: a top-result lookup ends in one of three ways.  With a result, the first
\* one becomes the selection exactly as a picked suggestion would: cached, map
\* target and marker set from it, text replaced by its short name, list emptied
\* and hidden, error cleared.  With none, the error is the no-results message;
\* on failure it is the search-failed message, a different one; in both of these
\* there is no marker.  In all three isSearching is false afterwards.
C17_LookupOutcomes ==
    [][/\ \A r \in BagToSet(geoRequests), data \in LookupLists :
            LookupResolve(r, data)
                => /\ ~isSearching'
                   /\ IF Len(data) > 0
                      THEN /\ cachedItem' = data[1]
                           /\ flyTo' = [center |-> Center(data[1]), zoom |-> Zoom(data[1])]
                           /\ searchResult' = [center |-> Center(data[1]),
                                               label |-> data[1].display_name]
                           /\ searchQuery' = ShortName(data[1])
                           /\ suggestions' = <<>> /\ ~showSuggestions'
                           /\ searchError' = ""
                      ELSE /\ searchError' = ErrNoResults
                           /\ searchResult' = NoSearchResult
       /\ \A r \in BagToSet(geoRequests) :
            LookupReject(r)
                => /\ ~isSearching'
                   /\ searchError' = ErrSearchFailed
                   /\ searchError' \notin {ErrNoResults, ""}
                   /\ searchResult' = NoSearchResult]_vars

\* the lookup of a two-character query failed
C17_LookupFailed ==
    /\ ev = "lookupReject"
    /\ searchQuery = <<"L", "h">>
    /\ searchError = ErrSearchFailed
    /\ searchResult = NoSearchResult
    /\ ~isSearching /\ geoRequests = EmptyBag

\* C18: the clear button leaves the search idle: no text, no suggestions shown or
\* stored, no error, no marker, no map target, no cached selection and no
\* debounce timer pending.
C18_ClearResetsToIdle ==
    [][HandleClear
          => /\ searchQuery' = <<>>
             /\ suggestions' = <<>> /\ ~showSuggestions'
             /\ searchError' = ""
             /\ searchResult' = NoSearchResult
             /\ flyTo' = NoFlyTo
             /\ cachedItem' = NoItem
             /\ debounceTimer' = NoTimer]_vars

\* cleared while a lookup and a suggestion request were in flight
C18_ClearedWithRequestsInFlight ==
    /\ ev = "handleClear"
    /\ searchQuery = <<>> /\ suggestions = <<>> /\ ~showSuggestions
    /\ searchError = "" /\ searchResult = NoSearchResult /\ flyTo = NoFlyTo
    /\ cachedItem = NoItem /\ debounceTimer = NoTimer
    /\ isSearching /\ BagCardinality(geoRequests) = 2

\* C19: a geocoding request that fails, suggestion request or lookup, leaves a
\* non-empty error text, and no request is sent in its place.
C19_FailuresSurfaced ==
    [][\A r \in BagToSet(geoRequests) :
          (SuggestReject(r) \/ LookupReject(r))
              => /\ searchError' /= ""
                 /\ ~(Issued("suggest") \/ Issued("lookup"))
                 /\ debounceTimer' = debounceTimer]_vars

\* C23: a lookup response that arrives when the text is no longer the query it was
\* sent for changes nothing that is shown: not the text, the cached selection,
\* the marker, the error or the map target.
C23_StaleLookupDropped ==
    [][\A r \in BagToSet(geoRequests), data \in LookupLists :
          (LookupResolve(r, data) /\ r.q /= Trim(searchQuery))
              => UNCHANGED <<searchQuery, cachedItem, searchResult, searchError, flyTo>>]_vars

\* C24 as stated: an edit of the text clears the cached selection and leaves no
\* timer pending but the one of the new text; a form submit right after an edit
\* applies no selection and sends a top-result lookup.
C24_EditThenSubmitLooksUp ==
    [][/\ \A v \in TypedQueries :
            OnChange(v)
                => /\ cachedItem' = NoItem
                   /\ debounceTimer' \in {NoTimer, Trim(v)}
       /\ (HandleSearch /\ ev = "onChange")
            => /\ cachedItem = NoItem
               /\ UNCHANGED <<cachedItem, searchQuery, searchResult, flyTo>>
               /\ Issued("lookup")]_vars

\* C24 as amended: ... a form submit right after an edit applies no selection,
\* and sends a top-result lookup exactly when the trimmed text is not empty.
C24_EditThenSubmitLooksUpNonEmpty ==
    [][/\ \A v \in TypedQueries :
            OnChange(v)
                => /\ cachedItem' = NoItem
                   /\ debounceTimer' \in {NoTimer, Trim(v)}
       /\ (HandleSearch /\ ev = "onChange")
            => /\ cachedItem = NoItem
               /\ UNCHANGED <<cachedItem, searchQuery, searchResult, flyTo>>
               /\ Issued("lookup") <=> Trim(searchQuery) /= <<>>
               /\ Issued("lookup") => geoRequests' = geoRequests
                        (+) SetToBag({[kind |-> "lookup", q |-> Trim(searchQuery)]})]_vars

\* Lahore was selected, the text edited to "Lh" and the form submitted: the
\* selection's marker is still there, the cache is empty and a lookup is out
C24_SubmittedAfterEdit ==
    /\ ev = "handleSearch"
    /\ searchResult.label = Lahore.display_name
    /\ cachedItem = NoItem
    /\ searchQuery = <<"L", "h">>
    /\ isSearching
    /\ geoRequests = SetToBag({[kind |-> "lookup", q |-> <<"L", "h">>]})

\* C25: a click outside the search region hides the suggestion list and changes
\* nothing else: text, stored suggestions, cached selection, error, marker, map
\* target, pending timer and requests in flight stay as they were.
C25_OutsideClickOnlyHides ==
    [][HandleOutsideClick
          => /\ ~showSuggestions'
             /\ UNCHANGED <<searchQuery, suggestions, cachedItem, searchError,
                            searchResult, flyTo, debounceTimer, geoRequests,
                            isSearching>>]_vars

\* the list of "Lhr" was showing, "Punj" typed and its timer pending, when the
\* click hid the list
C25_HiddenWithListAndTimer ==
    /\ ev = "outsideClick"
    /\ ~showSuggestions /\ Len(suggestions) = 2
    /\ searchQuery = <<"P", "u", "n", "j">>
    /\ debounceTimer = <<"P", "u", "n", "j">>


\* C31: after a reset made while a submission is in flight (the polygon is
\* cleared and the button is still disabled, so nothing has been submitted
\* since), the job identifier stays absent and no timer and no polling start,
\* whatever arrives.
C31_ResetHolds ==
    [][(/\ mounted /\ mounted'
        /\ submitting /\ aoiGeojson = NoAOI /\ jobId = NoJob)
            => jobId' = NoJob /\ ~polling' /\ timers' = {}]_vars

\* C32: the Dashboard holds a polygon exactly when the map holds a shape.
C32_PolygonIffShape == (aoiGeojson /= NoAOI) <=> (layers /= <<>>)


\* C33: right after a candidate is selected (picked from the list, or the top
\* result of a lookup), what happens without the user (the debounce timer
\* firing, a suggestion response arriving or failing) sends no suggestion
\* request and leaves the suggestion list empty and hidden.
C33_SelectionStays ==
    [][(/\ \/ ev = "pickSuggestion"
           \/ /\ ev = "lookupResolve"
              /\ cachedItem /= NoItem /\ searchQuery = ShortName(cachedItem)
              /\ suggestions = <<>> /\ ~showSuggestions
        /\ ev' \in {"debounceFire", "suggestResolve", "suggestReject"})
            => ~Issued("suggest") /\ suggestions' = <<>> /\ ~showSuggestions']_vars


\* C34: when polling is on, it comes to a stop (no interval timer, flag off),
\* and once stopped it stays stopped for as long as the job identifier is
\* unchanged.
PollingStopped == ~polling /\ timers = {}

C34_PollingStops ==
    /\ polling ~> PollingStopped
    /\ [][(PollingStopped /\ jobId' = jobId) => PollingStopped']_vars

\* polling for the second job has stopped at its failure while a fetch sent by
\* the interval is still on its way
C34_StoppedWithFetchOnItsWay ==
    /\ mounted /\ jobId = 2 /\ PollingStopped
    /\ result = [job |-> 2, status |-> "failed"]
    /\ [job |-> 2, status |-> "sent"] \in BagToSet(fetches)

====
